---- MODULE Spec2Model ----
(***************************************************************************)
(* A model of neo/models.py: the Neo electrophysiology schema declared as  *)
(* Django model classes.                                                   *)
(*                                                                         *)
(* Three state machines share the module's variables.                      *)
(*   SpecAccessors  an AnalogSignal and a RecordingChannel instance in     *)
(*                  memory, and the computed accessors called on them      *)
(*                  (sampling_rate, duration, t_stop, coordinate).         *)
(*   Spec           the persisted tables: rows are saved, linked, unlinked *)
(*                  and deleted under the constraints the field            *)
(*                  declarations put on them (null=..., the ForeignKey's   *)
(*                  on_delete, left at its default).                       *)
(*   SpecClean      Spec, with instances also validated by full_clean()    *)
(*                  (blank=...).                                           *)
(***************************************************************************)
EXTENDS Integers, Sequences, FiniteSets, TLC

VARIABLES
    sig,      \* an AnalogSignal instance: [t_start, signal, sampling_period]
    chan,     \* a RecordingChannel instance: [x_coord, y_coord, z_coord]
    ret,      \* the last accessor call: [call, raised, value]
    db,       \* the tables: db[model] is the set of that model's rows
    m2m,      \* the join tables: m2m[field] is a set of <<source id, target id>>
    lastOp    \* the last operation on the tables and how it ended

vars == <<sig, chan, ret, db, m2m, lastOp>>

(***************************************************************************)
(* Bounds of the model.                                                    *)
(***************************************************************************)
MaxLen == 2       \* longest AnalogSignal.signal
MaxId == 1        \* primary keys are 1..MaxId; a Segment's, 1..MaxId + 1
MaxRows == 5      \* rows persisted at one time, all tables together
MaxRowsClean == 3 \* the same, where instances are also validated

(***************************************************************************)
(* Python values.  A float is a rational num/den in lowest terms with      *)
(* den > 0 (the rounding of IEEE-754 arithmetic is not modelled: every     *)
(* accessor performs a single operation).  None and a bound method are     *)
(* values of other types, so that arithmetic on them is a TypeError as in  *)
(* Python.                                                                 *)
(***************************************************************************)
Abs(n) == IF n < 0 THEN 0 - n ELSE n

RECURSIVE GCD(_, _)
GCD(a, b) == IF b = 0 THEN a ELSE GCD(b, a % b)

Float(n, d) ==
    LET g == GCD(Abs(n), Abs(d))
        s == IF d < 0 THEN 0 - 1 ELSE 1
    IN  [type |-> "float", num |-> (s * n) \div g, den |-> (s * d) \div g]

PyNone == [type |-> "NoneType", num |-> 0, den |-> 1]

BoundMethod(name) == [type |-> "instancemethod", num |-> 0, den |-> 1, name |-> name]

IsFloat(v) == v.type = "float"

\* What a call does: it returns a value or raises an exception.
Return(v) == [raised |-> "", value |-> v]
Raise(e) == [raised |-> e, value |-> PyNone]

\* float(n) of an int
PyFloatOfInt(n) == Float(n, 1)

\* a + b
PyAdd(a, b) ==
    IF IsFloat(a) /\ IsFloat(b)
    THEN Return(Float(a.num * b.den + b.num * a.den, a.den * b.den))
    ELSE Raise("TypeError")

\* a * b
PyMul(a, b) ==
    IF IsFloat(a) /\ IsFloat(b)
    THEN Return(Float(a.num * b.num, a.den * b.den))
    ELSE Raise("TypeError")

\* a / b
PyDiv(a, b) ==
    IF ~(IsFloat(a) /\ IsFloat(b)) THEN Raise("TypeError")
    ELSE IF b.num = 0 THEN Raise("ZeroDivisionError")
    ELSE Return(Float(a.num * b.den, a.den * b.num))

(***************************************************************************)
(* AnalogSignal's accessors.                                               *)
(***************************************************************************)
\* A sampling_rate that answers a zero period with a rate of zero.
sampling_rate_guarded(self) ==
    IF self.sampling_period.num = 0
    THEN Return(Float(0, 1))
    ELSE PyDiv(PyFloatOfInt(1), self.sampling_period)

\* return 1/self.sampling_period
sampling_rate(self) == PyDiv(PyFloatOfInt(1), self.sampling_period)

\* A duration that counts the intervals between samples.
duration_between_samples(self) ==
    PyMul(PyFloatOfInt(Len(self.signal) - 1), self.sampling_period)

\* return float(len(self.signal))*self.sampling_period
duration(self) == PyMul(PyFloatOfInt(Len(self.signal)), self.sampling_period)

\* return self.t_start + self.duration
\* self.duration is not called: the operand is the bound method itself.
t_stop(self) == PyAdd(self.t_start, BoundMethod("duration"))

(***************************************************************************)
(* RecordingChannel's accessor.                                            *)
(***************************************************************************)
\* A coordinate that reads an unset coordinate as zero.
coordinate_zero_filled(self) ==
    LET Z(v) == IF v = PyNone THEN Float(0, 1) ELSE v
    IN  Return(<<Z(self.x_coord), Z(self.y_coord), Z(self.z_coord)>>)

\* return (self.x_coord, self.y_coord, self.z_coord)
coordinate(self) == Return(<<self.x_coord, self.y_coord, self.z_coord>>)

(***************************************************************************)
(* The instances the accessors are called on.  FloatField columns hold     *)
(* floats; the coordinates are null=True, so they may be None.             *)
(***************************************************************************)
FloatValues == {Float(0, 1), Float(1, 2), Float(2, 1), Float(0 - 1, 4)}

SampleValues == {Float(1, 2), Float(0 - 1, 4)}

SeqsUpTo(S, n) == UNION {[1..k -> S] : k \in 0..n}

AnalogSignalInstances ==
    [t_start : FloatValues,
     signal : SeqsUpTo(SampleValues, MaxLen),
     sampling_period : FloatValues]

CoordValues == {PyNone, Float(1, 1), Float(2, 1), Float(3, 1)}

RecordingChannelInstances ==
    [x_coord : CoordValues, y_coord : CoordValues, z_coord : CoordValues]

NoCall == [call |-> "", raised |-> "", value |-> PyNone]

Called(name, outcome) ==
    [call |-> name, raised |-> outcome.raised, value |-> outcome.value]

(***************************************************************************)
(* The schema.  Every relational or mandatory column of models.py is a     *)
(* descriptor carrying the options its declaration gives, or leaves at the *)
(* framework's default: null=False, blank=False, on_delete=CASCADE.        *)
(* Columns that no relation and no claim depends on (names, datetimes,     *)
(* the numeric payload) are left out of the rows.                          *)
(***************************************************************************)
None == -1

Field(model, name, type, to, null, blank) ==
    [model |-> model, name |-> name, type |-> type, to |-> to,
     null |-> null, blank |-> blank,
     on_delete |-> IF to = "" THEN "" ELSE "CASCADE"]

\* Segment.block with on_delete=SET_NULL.
Segment_block_set_null ==
    [Field("Segment", "block", "ForeignKey", "Block", TRUE, TRUE)
        EXCEPT !.on_delete = "SET_NULL"]

\* block = models.ForeignKey(Block,null=True,blank=True,db_index=True)
Segment_block == Field("Segment", "block", "ForeignKey", "Block", TRUE, TRUE)

\* RecordingChannel.index with null=True, blank=True.
RecordingChannel_index_optional ==
    Field("RecordingChannel", "index", "PositiveIntegerField", "", TRUE, TRUE)

\* index = models.PositiveIntegerField(blank=False,null=False)
RecordingChannel_index ==
    Field("RecordingChannel", "index", "PositiveIntegerField", "", FALSE, FALSE)

\* coord_units = models.CharField(max_length=255,)
RecordingChannel_coord_units ==
    Field("RecordingChannel", "coord_units", "CharField", "", FALSE, FALSE)

\* block = models.ForeignKey(Block)
Unit_block == Field("Unit", "block", "ForeignKey", "Block", FALSE, FALSE)

\* NeoData.segment with null=True, blank=True.
NeoData_segment_optional(model) ==
    Field(model, "segment", "ForeignKey", "Segment", TRUE, TRUE)

\* NeoData.segment with on_delete=DO_NOTHING.
NeoData_segment_do_nothing(model) ==
    [Field(model, "segment", "ForeignKey", "Segment", FALSE, FALSE)
        EXCEPT !.on_delete = "DO_NOTHING"]

\* NeoData: segment = models.ForeignKey(Segment,db_index=True), inherited by
\* every concrete subclass of the abstract NeoData.
NeoData_segment(model) ==
    Field(model, "segment", "ForeignKey", "Segment", FALSE, FALSE)

\* recording_channel = models.ForeignKey(RecordingChannel,null=True,blank=True)
AnalogSignal_recording_channel ==
    Field("AnalogSignal", "recording_channel", "ForeignKey", "RecordingChannel",
          TRUE, TRUE)

\* recording_channel = models.ForeignKey(RecordingChannel)
IrregularlySampledSignal_recording_channel ==
    Field("IrregularlySampledSignal", "recording_channel", "ForeignKey",
          "RecordingChannel", FALSE, FALSE)

\* Spike.unit with on_delete=DO_NOTHING.
Spike_unit_do_nothing ==
    [Field("Spike", "unit", "ForeignKey", "Unit", FALSE, FALSE)
        EXCEPT !.on_delete = "DO_NOTHING"]

\* unit = models.ForeignKey('Unit')
Spike_unit == Field("Spike", "unit", "ForeignKey", "Unit", FALSE, FALSE)

\* label = models.ForeignKey(EventType,db_index=True)
Event_label == Field("Event", "label", "ForeignKey", "EventType", FALSE, FALSE)

\* class Epoch(Event): a table of its own whose primary key is the link to
\* its row in Event's table.
Epoch_event_ptr ==
    Field("Epoch", "event_ptr", "OneToOneField", "Event", FALSE, FALSE)

\* The concrete classes, in the order of the file.
ModelSeq ==
    <<"EventType", "Block", "Segment", "RecordingChannelGroup",
      "RecordingChannel", "Unit", "AnalogSignal", "AnalogSignalArray",
      "IrregularlySampledSignal", "Spike", "SpikeTrain", "Event",
      "EventArray", "Epoch", "EpochArray">>

Models == {ModelSeq[i] : i \in 1..Len(ModelSeq)}

\* The concrete classes that derive from NeoData directly.
NeoDataModels ==
    {"AnalogSignal", "AnalogSignalArray", "IrregularlySampledSignal", "Spike",
     "SpikeTrain", "Event", "EventArray", "EpochArray"}

\* Multi-table inheritance: the class whose table holds a model's inherited
\* columns ("" when the model has none).
Parent(model) == IF model = "Epoch" THEN "Event" ELSE ""

Fields ==
    {Segment_block, RecordingChannel_index, RecordingChannel_coord_units,
     Unit_block, AnalogSignal_recording_channel,
     IrregularlySampledSignal_recording_channel, Spike_unit, Event_label,
     Epoch_event_ptr}
    \cup {NeoData_segment(m) : m \in NeoDataModels}

\* The columns of a model's own table.
FieldsOf(model) == {f \in Fields : f.model = model}

\* The columns an instance of the model carries: its own and its parent's,
\* without the parent link, which the framework fills in.
InstanceFields(model) ==
    {f \in FieldsOf(model) \cup FieldsOf(Parent(model)) : f.type # "OneToOneField"}

ManyToMany(model, name, to) == [model |-> model, name |-> name, to |-> to]

\* recordingchannels = models.ManyToManyField('RecordingChannel')
RecordingChannelGroup_recordingchannels ==
    ManyToMany("RecordingChannelGroup", "recordingchannels", "RecordingChannel")

\* recording_channel_group = models.ManyToManyField('RecordingChannelGroup')
Unit_recording_channel_group ==
    ManyToMany("Unit", "recording_channel_group", "RecordingChannelGroup")

\* analog_signals = models.ManyToManyField('AnalogSignal')
AnalogSignalArray_analog_signals ==
    ManyToMany("AnalogSignalArray", "analog_signals", "AnalogSignal")

ManyToManyFields ==
    {RecordingChannelGroup_recordingchannels, Unit_recording_channel_group,
     AnalogSignalArray_analog_signals}

ManyToManyNames == {f.name : f \in ManyToManyFields}

(***************************************************************************)
(* The tables.                                                             *)
(***************************************************************************)
\* The primary keys of a model's table.  Segment has one more than the
\* others, so that one Segment can go while another stays.
Ids(model) == IF model = "Segment" THEN 1..(MaxId + 1) ELSE 1..MaxId

\* The values of a relation to the model.
Ref(model) == {None} \cup Ids(model)

PkSet(table) == {r.id : r \in table}

RECURSIVE CountRows(_, _)
CountRows(d, i) ==
    IF i = 0 THEN 0 ELSE Cardinality(d[ModelSeq[i]]) + CountRows(d, i - 1)

TotalRows(d) == CountRows(d, Len(ModelSeq))

\* The instances a caller may build: the keyword arguments of the model's
\* constructor.  A relation left out is None, or names a primary key, which
\* may or may not be a persisted row's; an index left out is None; a
\* coord_units left out is the CharField's default, the empty string.
Instances(model) ==
    CASE model \in {"EventType", "Block", "RecordingChannelGroup"} ->
            [id : Ids(model)]
      [] model \in {"Segment", "Unit"} ->
            [id : Ids(model), block : Ref("Block")]
      [] model = "RecordingChannel" ->
            [id : Ids(model), index : {None, 1}, coord_units : {"", "mm"}]
      [] model \in {"AnalogSignal", "IrregularlySampledSignal"} ->
            [id : Ids(model), segment : Ref("Segment"),
             recording_channel : Ref("RecordingChannel")]
      [] model \in {"AnalogSignalArray", "SpikeTrain", "EventArray", "EpochArray"} ->
            [id : Ids(model), segment : Ref("Segment")]
      [] model = "Spike" ->
            [id : Ids(model), segment : Ref("Segment"), unit : Ref("Unit")]
      [] model \in {"Event", "Epoch"} ->
            [id : Ids(model), segment : Ref("Segment"), label : Ref("EventType")]

\* Whether a column's value is one of the field's empty values: '' for a
\* CharField, None for the others.
IsEmpty(f, v) == IF f.type = "CharField" THEN v = "" ELSE v = None

\* The columns of the instance that were left out.
Omitted(model, r) == {f.name : f \in {g \in InstanceFields(model) : IsEmpty(g, r[g.name])}}

\* Whether the primary key is free for a new instance of the model.
IsNew(d, model, r) ==
    /\ r.id \notin PkSet(d[model])
    /\ Parent(model) # "" => r.id \notin PkSet(d[Parent(model)])

(***************************************************************************)
(* Model.full_clean() of a new instance: a field that is not blank=True    *)
(* rejects an empty value, a relation rejects a key that no row has, and   *)
(* the primary key must not be in use.                                     *)
(***************************************************************************)
full_clean(d, model, r) ==
    IF \/ \E f \in InstanceFields(model) :
             \/ ~f.blank /\ IsEmpty(f, r[f.name])
             \/ f.to # "" /\ r[f.name] # None /\ r[f.name] \notin PkSet(d[f.to])
       \/ ~IsNew(d, model, r)
    THEN "ValidationError"
    ELSE "ok"

(***************************************************************************)
(* Model.save() of a new instance: an INSERT into the parent's table, if   *)
(* the model has one, and into the model's own.  save() validates          *)
(* nothing; what rejects a row is the table: a NULL in a column that is    *)
(* not null=True, or a foreign key that no row has.  The '' of a CharField *)
(* is a value, not NULL.  A new instance takes a primary key not in use.   *)
(***************************************************************************)
Violates(d, model, r) ==
    \E f \in FieldsOf(model) :
          \/ ~f.null /\ f.type # "CharField" /\ r[f.name] = None
          \/ f.to # "" /\ r[f.name] # None /\ r[f.name] \notin PkSet(d[f.to])

\* The row of the parent's table and the row of the model's own.
ParentRow(r) == [id |-> r.id, segment |-> r.segment, label |-> r.label]

ChildRow(r) == [id |-> r.id, event_ptr |-> r.id]

Insert(d, model, r) == [d EXCEPT ![model] = @ \cup {r}]

save(d, model, r) ==
    IF Parent(model) = ""
    THEN IF Violates(d, model, r)
         THEN [result |-> "IntegrityError", db |-> d]
         ELSE [result |-> "ok", db |-> Insert(d, model, r)]
    ELSE IF Violates(d, Parent(model), ParentRow(r))
         THEN [result |-> "IntegrityError", db |-> d]
         ELSE LET d1 == Insert(d, Parent(model), ParentRow(r))
              IN  IF Violates(d1, model, ChildRow(r))
                  THEN [result |-> "IntegrityError", db |-> d]
                  ELSE [result |-> "ok", db |-> Insert(d1, model, ChildRow(r))]

\* The rows a new instance adds.
RowsOf(model) == IF Parent(model) = "" THEN 1 ELSE 2

(***************************************************************************)
(* Model.delete().  No ForeignKey of the file passes on_delete, so each    *)
(* has the default: the rows that refer to a deleted row are deleted with  *)
(* it, and so on from them.  Deleting a row of a model with a parent       *)
(* deletes its parent row as well.  The rows of a join table go with the   *)
(* row at either end.  A relation with on_delete SET_NULL would instead    *)
(* keep the referring row and clear its column.                            *)
(***************************************************************************)
\* The rows, as <<model, id>>, that refer to a row of S through a cascading
\* relation, and the parent rows of the rows of S.
Related(d, S) ==
    UNION {{<<f.model, r.id>> : r \in {x \in d[f.model] : <<f.to, x[f.name]>> \in S}} :
              f \in {g \in Fields : g.on_delete = "CASCADE"}}
    \cup {<<Parent(k[1]), k[2]>> : k \in {x \in S : Parent(x[1]) # ""}}

RECURSIVE Collect(_, _)
Collect(d, S) ==
    LET T == S \cup Related(d, S)
    IN  IF T = S THEN S ELSE Collect(d, T)

\* A row that survives, with the columns of its SET_NULL relations to a
\* deleted row cleared.
Keep(model, r, C) ==
    [c \in DOMAIN r |->
        IF \E f \in FieldsOf(model) :
              f.name = c /\ f.on_delete = "SET_NULL" /\ <<f.to, r[c]>> \in C
        THEN None
        ELSE r[c]]

ManyToManyField(name) == CHOOSE f \in ManyToManyFields : f.name = name

delete(d, links, model, id) ==
    LET C == Collect(d, {<<model, id>>})
    IN  [collected |-> Cardinality(C),
         db |-> [m \in Models |->
                    {Keep(m, r, C) : r \in {x \in d[m] : <<m, x.id>> \notin C}}],
         m2m |-> [n \in ManyToManyNames |->
                    {p \in links[n] :
                        /\ <<ManyToManyField(n).model, p[1]>> \notin C
                        /\ <<ManyToManyField(n).to, p[2]>> \notin C}]]

(***************************************************************************)
(* The related manager of a many-to-many field: add() inserts a row into   *)
(* the join table, whose two foreign keys must name persisted rows;        *)
(* remove() deletes it.                                                    *)
(***************************************************************************)
add(d, links, f, a, b) ==
    IF a \in PkSet(d[f.model]) /\ b \in PkSet(d[f.to])
    THEN [result |-> "ok", m2m |-> [links EXCEPT ![f.name] = @ \cup {<<a, b>>}]]
    ELSE [result |-> "IntegrityError", m2m |-> links]

remove(links, f, a, b) == [links EXCEPT ![f.name] = @ \ {<<a, b>>}]

(***************************************************************************)
(* The state machine of the tables.                                        *)
(***************************************************************************)
\* lastOp: the operation, the model it was on, the columns the instance
\* left out, how it ended, and the number of rows a delete collected.
Op(op, model, omitted, result, collected) ==
    [op |-> op, model |-> model, omitted |-> omitted, result |-> result,
     collected |-> collected]

NoOp == Op("", "", {}, "ok", 0)

InitDb ==
    /\ db = [m \in Models |-> {}]
    /\ m2m = [n \in ManyToManyNames |-> {}]
    /\ lastOp = NoOp

\* The instances at rest while the tables' state machine runs.
IdleAccessors ==
    /\ sig = [t_start |-> Float(0, 1), signal |-> <<>>, sampling_period |-> Float(1, 1)]
    /\ chan = [x_coord |-> PyNone, y_coord |-> PyNone, z_coord |-> PyNone]
    /\ ret = NoCall

Init == InitDb /\ IdleAccessors

\* save() of a new instance while the tables hold fewer than max rows.
SaveWithin(max, model, r) ==
    /\ IsNew(db, model, r)
    /\ TotalRows(db) + RowsOf(model) <= max
    /\ LET out == save(db, model, r)
       IN  /\ db' = out.db
           /\ lastOp' = Op("save", model, Omitted(model, r), out.result, 0)
    /\ UNCHANGED <<sig, chan, ret, m2m>>

Save(model, r) == SaveWithin(MaxRows, model, r)

SaveClean(model, r) == SaveWithin(MaxRowsClean, model, r)

FullClean(model, r) ==
    /\ lastOp' = Op("full_clean", model, Omitted(model, r), full_clean(db, model, r), 0)
    /\ UNCHANGED <<sig, chan, ret, db, m2m>>

Delete(model, id) ==
    /\ id \in PkSet(db[model])
    /\ LET out == delete(db, m2m, model, id)
       IN  /\ db' = out.db
           /\ m2m' = out.m2m
           /\ lastOp' = Op("delete", model, {}, "ok", out.collected)
    /\ UNCHANGED <<sig, chan, ret>>

Add(f, a, b) ==
    /\ <<a, b>> \notin m2m[f.name]
    /\ LET out == add(db, m2m, f, a, b)
       IN  /\ m2m' = out.m2m
           /\ lastOp' = Op("add", f.model, {}, out.result, 0)
    /\ UNCHANGED <<sig, chan, ret, db>>

Remove(f, a, b) ==
    /\ <<a, b>> \in m2m[f.name]
    /\ m2m' = remove(m2m, f, a, b)
    /\ lastOp' = Op("remove", f.model, {}, "ok", 0)
    /\ UNCHANGED <<sig, chan, ret, db>>

Change ==
    \/ \E model \in Models : \E id \in Ids(model) : Delete(model, id)
    \/ \E f \in ManyToManyFields : \E a \in Ids(f.model), b \in Ids(f.to) : Add(f, a, b)
    \/ \E f \in ManyToManyFields : \E a \in Ids(f.model), b \in Ids(f.to) : Remove(f, a, b)

Next ==
    \/ \E model \in Models : \E r \in Instances(model) : Save(model, r)
    \/ Change

\* The tables: instances are saved unvalidated, deleted, linked and unlinked.
Spec == Init /\ [][Next]_vars

NextClean ==
    \/ \E model \in Models : \E r \in Instances(model) : SaveClean(model, r)
    \/ \E model \in Models : \E r \in Instances(model) : FullClean(model, r)
    \/ Change

\* The tables, and instances validated by full_clean().
SpecClean == Init /\ [][NextClean]_vars

(***************************************************************************)
(* The state machine of the accessors: any instance, and any accessor      *)
(* called on it.                                                           *)
(***************************************************************************)
InitAccessors ==
    /\ sig \in AnalogSignalInstances
    /\ chan \in RecordingChannelInstances
    /\ ret = NoCall
    /\ InitDb

CallSamplingRate ==
    /\ ret' = Called("sampling_rate", sampling_rate(sig))
    /\ UNCHANGED <<sig, chan, db, m2m, lastOp>>

CallDuration ==
    /\ ret' = Called("duration", duration(sig))
    /\ UNCHANGED <<sig, chan, db, m2m, lastOp>>

CallTStop ==
    /\ ret' = Called("t_stop", t_stop(sig))
    /\ UNCHANGED <<sig, chan, db, m2m, lastOp>>

CallCoordinate ==
    /\ ret' = Called("coordinate", coordinate(chan))
    /\ UNCHANGED <<sig, chan, db, m2m, lastOp>>

NextAccessors ==
    \/ CallSamplingRate
    \/ CallDuration
    \/ CallTStop
    \/ CallCoordinate

SpecAccessors == InitAccessors /\ [][NextAccessors]_vars

(***************************************************************************)
(* Properties.                                                             *)
(***************************************************************************)
\* The data entities: the concrete subclasses of NeoData, Epoch among them
\* through Event.
DataEntities == NeoDataModels \cup {"Epoch"}

\* The segment column of a data entity's row; an Epoch's is in its row of
\* Event's table.
SegmentOf(d, model, r) ==
    IF model = "Epoch"
    THEN IF \E e \in d["Event"] : e.id = r.event_ptr
         THEN (CHOOSE e \in d["Event"] : e.id = r.event_ptr).segment
         ELSE None
    ELSE r.segment

\* The primary keys of the model's rows that are gone after the step.
Gone(model) == PkSet(db[model]) \ PkSet(db'[model])

\* The many-to-many links of an instance: an AnalogSignalArray's
\* analog_signals, and for an AnalogSignal the arrays that hold it.
LinksOf(links, model, id) ==
    IF model = "AnalogSignalArray"
    THEN {p \in links["analog_signals"] : p[1] = id}
    ELSE IF model = "AnalogSignal"
    THEN {p \in links["analog_signals"] : p[2] = id}
    ELSE {}

----------------------------------------------------------------------------
\* C3 as claimed: t_stop() returns t_start + len(signal) * sampling_period.
C3_TStopIsStartPlusDuration ==
    ret.call = "t_stop" =>
        /\ ret.raised = ""
        /\ IsFloat(ret.value)
        /\ ret.value.num * (sig.t_start.den * sig.sampling_period.den)
             = ret.value.den
                 * (sig.t_start.num * sig.sampling_period.den
                    + Len(sig.signal) * sig.sampling_period.num * sig.t_start.den)

----------------------------------------------------------------------------
\* C4: sampling_rate() of a sampling_period of 0 raises ZeroDivisionError and
\* returns no value; of any other sampling_period p it returns r with
\* r * p = 1.
C4_SamplingRate ==
    ret.call = "sampling_rate" =>
        IF sig.sampling_period.num = 0
        THEN ret.raised = "ZeroDivisionError" /\ ret.value = PyNone
        ELSE /\ ret.raised = ""
             /\ IsFloat(ret.value)
             /\ ret.value.num * sig.sampling_period.num
                  = ret.value.den * sig.sampling_period.den

\* C4's case: sampling_rate() was called on a signal whose period is 0.
C4_Witness ==
    /\ ret.call = "sampling_rate"
    /\ sig.sampling_period = Float(0, 1)
    /\ ret.raised = "ZeroDivisionError"

----------------------------------------------------------------------------
\* C5: duration() returns d with d = len(signal) * sampling_period, also for
\* an empty signal, where d = 0.
C5_Duration ==
    ret.call = "duration" =>
        /\ ret.raised = ""
        /\ IsFloat(ret.value)
        /\ ret.value.num * sig.sampling_period.den
             = Len(sig.signal) * sig.sampling_period.num * ret.value.den
        /\ Len(sig.signal) = 0 => ret.value = Float(0, 1)

\* C5's case: duration() was called on a signal of two samples at a period
\* of 1/2, and returned 1.
C5_Witness ==
    /\ ret.call = "duration"
    /\ Len(sig.signal) = 2
    /\ sig.sampling_period = Float(1, 2)
    /\ ret.value = Float(1, 1)

----------------------------------------------------------------------------
\* C7: coordinate() returns the triple (x_coord, y_coord, z_coord) of the
\* record, in that order and as stored, None included.
C7_Coordinate ==
    ret.call = "coordinate" =>
        /\ ret.raised = ""
        /\ Len(ret.value) = 3
        /\ ret.value[1] = chan.x_coord
        /\ ret.value[2] = chan.y_coord
        /\ ret.value[3] = chan.z_coord

\* C7's case: coordinate() was called on a channel with x and z set,
\* different, and y unset.
C7_Witness ==
    /\ ret.call = "coordinate"
    /\ chan.x_coord = Float(1, 1)
    /\ chan.y_coord = PyNone
    /\ chan.z_coord = Float(3, 1)
    /\ ret.value = <<Float(1, 1), PyNone, Float(3, 1)>>

----------------------------------------------------------------------------
C1Entities ==
    {"AnalogSignal", "Spike", "SpikeTrain", "Event", "Epoch",
     "IrregularlySampledSignal"}

C1_EveryOneHasASegment ==
    \A m \in C1Entities : \A r \in db[m] :
        /\ SegmentOf(db, m, r) # None
        /\ SegmentOf(db, m, r) \in PkSet(db["Segment"])

C1_SaveWithoutSegmentFails ==
    (/\ lastOp'.op = "save"
     /\ lastOp'.model \in C1Entities
     /\ "segment" \in lastOp'.omitted)
    => (lastOp'.result = "IntegrityError" /\ db' = db /\ m2m' = m2m)

\* C1: every persisted AnalogSignal, Spike, SpikeTrain, Event, Epoch and
\* IrregularlySampledSignal references exactly one persisted Segment, and a
\* save() of one of them without a segment ends in an IntegrityError and
\* leaves the tables as they were.
C1_DataEntityHasSegment ==
    [](C1_EveryOneHasASegment) /\ [][C1_SaveWithoutSegmentFails]_vars

\* C1's case: a data entity is persisted with its segment, and the save of
\* an Epoch without a segment has just been rejected.
C1_Witness ==
    /\ lastOp = Op("save", "Epoch", {"segment"}, "IntegrityError", 0)
    /\ db["Segment"] # {}
    /\ \E m \in C1Entities : db[m] # {}

----------------------------------------------------------------------------
\* The step is the delete() of a Segment.
C2_SegmentDeleted == lastOp'.op = "delete" /\ lastOp'.model = "Segment"

C2_NoneOfTheSegmentRemains ==
    C2_SegmentDeleted =>
        \A s \in Gone("Segment") : \A m \in DataEntities : \A r \in db[m] :
            SegmentOf(db, m, r) = s => r.id \notin PkSet(db'[m])

C2_RowsOfOtherSegmentsStay ==
    C2_SegmentDeleted =>
        \A m \in DataEntities : \A r \in db[m] :
            SegmentOf(db, m, r) \notin Gone("Segment") => r \in db'[m]

C2_LinksOfOtherSegmentsStay ==
    C2_SegmentDeleted =>
        \A m \in DataEntities : \A r \in db[m] :
            SegmentOf(db, m, r) \notin Gone("Segment")
                => LinksOf(m2m', m, r.id) = LinksOf(m2m, m, r.id)

C2_OnlyLinksOfDeletedRowsGo ==
    C2_SegmentDeleted =>
        m2m'["analog_signals"] =
            {p \in m2m["analog_signals"] :
                /\ p[1] \in PkSet(db'["AnalogSignalArray"])
                /\ p[2] \in PkSet(db'["AnalogSignal"])}

\* C2 as claimed: after a Segment is deleted, no data entity that referenced
\* it remains persisted, and the data entities of other Segments are
\* unchanged, their many-to-many links included.
C2_Original ==
    [][/\ C2_NoneOfTheSegmentRemains
       /\ C2_RowsOfOtherSegmentsStay
       /\ C2_LinksOfOtherSegmentsStay]_vars

\* C2, amended: after the delete() of a Segment, no data entity that
\* referenced it remains persisted and the rows of the data entities of other
\* Segments are unchanged; of the analog_signals links, exactly those with a
\* deleted record at either end are removed.
C2_SegmentDeleteCascades ==
    [][/\ C2_NoneOfTheSegmentRemains
       /\ C2_RowsOfOtherSegmentsStay
       /\ C2_OnlyLinksOfDeletedRowsGo]_vars

\* C2's case: a Segment was deleted with a data entity of its own, and a
\* data entity of another Segment is still there.
C2_Witness ==
    /\ lastOp.op = "delete" /\ lastOp.model = "Segment" /\ lastOp.collected >= 2
    /\ \E m \in DataEntities : db[m] # {}

----------------------------------------------------------------------------
----------------------------------------------------------------------------
RefersToARow(model, column, to) ==
    \A r \in db[model] : r[column] # None => r[column] \in PkSet(db[to])

LinksReferToRows(name, model, to) ==
    \A p \in m2m[name] : p[1] \in PkSet(db[model]) /\ p[2] \in PkSet(db[to])

\* C9: in every reachable state, every non-null foreign key of a persisted
\* row and both ends of every many-to-many link are persisted rows.
C9_ReferentialIntegrity ==
    /\ RefersToARow("Segment", "block", "Block")
    /\ RefersToARow("Unit", "block", "Block")
    /\ \A m \in NeoDataModels : RefersToARow(m, "segment", "Segment")
    /\ RefersToARow("AnalogSignal", "recording_channel", "RecordingChannel")
    /\ RefersToARow("IrregularlySampledSignal", "recording_channel", "RecordingChannel")
    /\ RefersToARow("Spike", "unit", "Unit")
    /\ RefersToARow("Event", "label", "EventType")
    /\ RefersToARow("Epoch", "event_ptr", "Event")
    /\ LinksReferToRows("recordingchannels", "RecordingChannelGroup", "RecordingChannel")
    /\ LinksReferToRows("recording_channel_group", "Unit", "RecordingChannelGroup")
    /\ LinksReferToRows("analog_signals", "AnalogSignalArray", "AnalogSignal")

\* C9's case: a delete has taken rows that others referred to, and rows with
\* a foreign key are still there.
C9_Witness ==
    /\ lastOp.op = "delete" /\ lastOp.collected >= 2
    /\ \E m \in NeoDataModels : db[m] # {}

----------------------------------------------------------------------------
C10_BlockDeleteCascades ==
    \A b \in Gone("Block") :
        LET segs == {s.id : s \in {x \in db["Segment"] : x.block = b}}
            units == {u.id : u \in {x \in db["Unit"] : x.block = b}}
        IN  /\ segs \cap PkSet(db'["Segment"]) = {}
            /\ units \cap PkSet(db'["Unit"]) = {}
            /\ \A m \in DataEntities : \A r \in db[m] :
                  SegmentOf(db, m, r) \in segs => r.id \notin PkSet(db'[m])
            /\ \A k \in db["Spike"] :
                  k.unit \in units => k.id \notin PkSet(db'["Spike"])

C10_NoSegmentLosesItsBlock ==
    \A s \in db'["Segment"] : \A x \in db["Segment"] :
        (x.id = s.id /\ s.block = None) => x.block = None

C10_SegmentWithoutBlockIsSaved ==
    (/\ lastOp.op = "save" /\ lastOp.model = "Segment" /\ "block" \in lastOp.omitted)
    => lastOp.result = "ok"

\* C10: a Segment is saved without a Block; deleting a Block removes every
\* Segment and Unit that references it, every data entity of those Segments
\* and every Spike of those Units, and leaves no Segment with its block
\* cleared.
C10_SegmentDoesNotOutliveBlock ==
    /\ [](C10_SegmentWithoutBlockIsSaved)
    /\ [][C10_BlockDeleteCascades /\ C10_NoSegmentLosesItsBlock]_vars

\* C10's case: the delete of a Block took its Segment, its Unit and the
\* Spike of both.
C10_Witness ==
    /\ lastOp.op = "delete" /\ lastOp.model = "Block" /\ lastOp.collected >= 4

====
